---- MODULE Spec2Model ----
(***************************************************************************)
(* Customer churn prediction service: the artifact store (ModelManager),   *)
(* the preprocessing pipeline (DataPreprocessor), the prediction service   *)
(* (PredictionService) and the route handlers that call them.              *)
(*                                                                         *)
(* Units.  A churn probability is an integer percentage (0.3 is 30).       *)
(* Charges are whole currency units.  A float that need not be whole       *)
(* (AvgMonthlyRate, a scaled feature) is a reduced fraction                *)
(* [num, den] with den > 0; den = 0 stands for the non-finite results of   *)
(* a float division by zero (num = 1: inf, num = 0: NaN).                  *)
(* Python's None is the empty tuple and a loaded artifact v is <<v>>.      *)
(***************************************************************************)
EXTENDS Integers, Sequences, FiniteSets, TLC

VARIABLES
    _model,           \* ModelManager._model
    _scaler,          \* ModelManager._scaler
    _label_encoders,  \* ModelManager._label_encoders
    _feature_names,   \* ModelManager._feature_names
    _model_metadata,  \* ModelManager._model_metadata
    phase,            \* application lifecycle: "starting", "serving", "failed"
    request,          \* the last call made: [op, arg]
    response,         \* what that call returned or raised
    processed         \* the records predict_single was entered for during that call

store == <<_model, _scaler, _label_encoders, _feature_names, _model_metadata>>
vars == <<_model, _scaler, _label_encoders, _feature_names, _model_metadata,
          phase, request, response, processed>>

----------------------------------------------------------------------------
(* Bounds of the model *)

\* longest customer list of a batch request
MaxBatch == 2

----------------------------------------------------------------------------
(* Configuration constants (core/config.py), in percent *)

RISK_THRESHOLD_LOW == 30
RISK_THRESHOLD_MEDIUM == 60

----------------------------------------------------------------------------
(* Python values *)

None == <<>>
Some(v) == <<v>>
Ok(v) == [ok |-> TRUE, val |-> v]
Raise(e) == [ok |-> FALSE, err |-> e]

RuntimeError(msg) == [exc |-> "RuntimeError", msg |-> msg]
ValueError(msg) == [exc |-> "ValueError", msg |-> msg]
KeyError(msg) == [exc |-> "KeyError", msg |-> msg]

Abs(n) == IF n < 0 THEN -n ELSE n

RECURSIVE Gcd(_, _)
Gcd(a, b) == IF b = 0 THEN a ELSE Gcd(b, a % b)

\* the float a / b of two whole numbers (pandas: x / 0 is inf, 0.0 / 0 is NaN)
Div(a, b) ==
    IF b = 0
    THEN [num |-> IF a = 0 THEN 0 ELSE 1, den |-> 0]
    ELSE LET g == Gcd(Abs(a), Abs(b))
             s == IF b < 0 THEN -1 ELSE 1
         IN  [num |-> s * (a \div g), den |-> s * (b \div g)]

IsFinite(x) == x.den # 0

----------------------------------------------------------------------------
(* core/model_loader.py: ModelManager *)

\* load_artifacts reads the five pickle files in this order
ArtifactOrder == <<"model", "scaler", "label_encoders", "feature_names", "model_metadata">>

\* the index of the first file whose open() or pickle.load() raises; 6 when none does
FirstFailure(disk) ==
    IF \E i \in 1..5 : ~disk[ArtifactOrder[i]].ok
    THEN CHOOSE i \in 1..5 :
            /\ ~disk[ArtifactOrder[i]].ok
            /\ \A j \in 1..(i - 1) : disk[ArtifactOrder[j]].ok
    ELSE 6

\* the value of the i-th attribute after load_artifacts: assigned when the
\* try block got as far as its pickle.load, left alone otherwise
Loaded(disk, i, old) ==
    IF i < FirstFailure(disk) THEN Some(disk[ArtifactOrder[i]].val) ELSE old

\* the exception load_artifacts re-raises, if any
load_artifacts_result(disk) ==
    IF FirstFailure(disk) = 6
    THEN Ok(None)
    ELSE Raise(disk[ArtifactOrder[FirstFailure(disk)]].err)

load_artifacts(disk) ==
    /\ _model' = Loaded(disk, 1, _model)
    /\ _scaler' = Loaded(disk, 2, _scaler)
    /\ _label_encoders' = Loaded(disk, 3, _label_encoders)
    /\ _feature_names' = Loaded(disk, 4, _feature_names)
    /\ _model_metadata' = Loaded(disk, 5, _model_metadata)

\* model with its guard dropped: the attribute is returned as it is
model_unguarded == IF _model = None THEN Ok(None) ELSE Ok(_model[1])

model ==
    IF _model = None
    THEN Raise(RuntimeError("Model not loaded. Call load_artifacts() first."))
    ELSE Ok(_model[1])

scaler ==
    IF _scaler = None
    THEN Raise(RuntimeError("Scaler not loaded. Call load_artifacts() first."))
    ELSE Ok(_scaler[1])

label_encoders ==
    IF _label_encoders = None
    THEN Raise(RuntimeError("Label encoders not loaded. Call load_artifacts() first."))
    ELSE Ok(_label_encoders[1])

feature_names ==
    IF _feature_names = None
    THEN Raise(RuntimeError("Feature names not loaded. Call load_artifacts() first."))
    ELSE Ok(_feature_names[1])

model_metadata ==
    IF _model_metadata = None
    THEN Raise(RuntimeError("Model metadata not loaded. Call load_artifacts() first."))
    ELSE Ok(_model_metadata[1])

is_loaded == _model # None

----------------------------------------------------------------------------
(* services/preprocessing.py: DataPreprocessor *)

\* df[col] = v on a one-row DataFrame (a new column, or an existing one replaced)
SetCol(df, col, v) == (col :> v) @@ df

\* (series == value).astype(int)
AsInt(b) == IF b THEN 1 ELSE 0

\* series.map({True: "Yes", False: "No"})
YesNo(b) == IF b THEN "Yes" ELSE "No"

\* series.replace(a, b)
Replace(v, a, b) == IF v = a THEN b ELSE v

\* the missing value pd.cut gives outside its bins; astype(str) prints it as "nan"
NaN == "NaN"

astype_str(v) == IF v = NaN THEN "nan" ELSE v

\* pd.cut(x, bins, labels) with the default right = True, include_lowest = False
Cut(x, bins, labels) ==
    IF \E i \in 1..Len(labels) : bins[i] < x /\ x <= bins[i + 1]
    THEN labels[CHOOSE i \in 1..Len(labels) : bins[i] < x /\ x <= bins[i + 1]]
    ELSE NaN

service_cols ==
    << "PhoneService", "InternetService", "OnlineSecurity", "OnlineBackup",
       "DeviceProtection", "TechSupport", "StreamingTV", "StreamingMovies" >>

premium_services ==
    << "OnlineSecurity", "OnlineBackup", "DeviceProtection", "TechSupport" >>

\* ServiceIncrement without the special case of InternetService
ServiceIncrementYesOnly(df, col) == AsInt(df[col] = "Yes")

\* what one pass of the ServiceCount loop adds for column col
ServiceIncrement(df, col) ==
    IF col = "PhoneService" THEN AsInt(df[col] = "Yes")
    ELSE IF col = "InternetService" THEN AsInt(df[col] # "No")
    ELSE AsInt(df[col] = "Yes")

\* the ServiceCount loop from its i-th column on, count being the sum so far
RECURSIVE ServiceCountLoop(_, _, _)
ServiceCountLoop(df, i, count) ==
    IF i > Len(service_cols)
    THEN count
    ELSE ServiceCountLoop(df, i + 1, count + ServiceIncrement(df, service_cols[i]))

\* sum([(df[col] == "Yes").astype(int) for col in cols])
RECURSIVE SumYes(_, _, _)
SumYes(df, cols, i) ==
    IF i > Len(cols) THEN 0 ELSE AsInt(df[cols[i]] = "Yes") + SumYes(df, cols, i + 1)

\* 1. df["ServiceCount"] after the loop over service_cols
ServiceCount(df) == ServiceCountLoop(df, 1, 0)

\* AvgMonthlyRate without the replace(0, 1)
AvgMonthlyRateUnreplaced(df) == Div(df["TotalCharges"], df["tenure"])

\* 2. df["TotalCharges"] / df["tenure"].replace(0, 1)
AvgMonthlyRate(df) == Div(df["TotalCharges"], Replace(df["tenure"], 0, 1))

\* 3. the number of premium services that are "Yes"
PremiumServiceCount(df) == SumYes(df, premium_services, 1)

\* ValueSegment with left-closed buckets (pd.cut with right = False)
ValueSegmentLeftClosed(df) ==
    LET m == df["MonthlyCharges"]
    IN  IF 0 <= m /\ m < 35 THEN "Low Value"
        ELSE IF 35 <= m /\ m < 70 THEN "Medium Value"
        ELSE IF 70 <= m /\ m < 120 THEN "High Value"
        ELSE NaN

\* 5. pd.cut(df["MonthlyCharges"], bins = [0, 35, 70, 120], labels = [...])
ValueSegment(df) ==
    Cut(df["MonthlyCharges"], <<0, 35, 70, 120>>,
        <<"Low Value", "Medium Value", "High Value">>)

\* the columns _engineer_features adds to the row, each computed from the
\* columns the code reads for it
EngineeredColumns(df) ==
    [ ServiceCount |-> ServiceCount(df),
      AvgMonthlyRate |-> AvgMonthlyRate(df),
      PremiumServiceCount |-> PremiumServiceCount(df),
      HasPremiumServices |-> YesNo(PremiumServiceCount(df) > 0),
      HasStreaming |-> YesNo(df["StreamingTV"] = "Yes" \/ df["StreamingMovies"] = "Yes"),
      ValueSegment |-> ValueSegment(df),
      HighRiskProfile |-> YesNo(df["Contract"] = "Month-to-month"
                                /\ df["PaymentMethod"] = "Electronic check"),
      FamilyCustomer |-> YesNo(df["Partner"] = "Yes" \/ df["Dependents"] = "Yes"),
      Tenure_MonthlyCharges |-> df["tenure"] * df["MonthlyCharges"],
      Tenure_ServiceCount |-> df["tenure"] * ServiceCount(df),
      MonthlyCharges_ServiceCount |-> df["MonthlyCharges"] * ServiceCount(df) ]

\* the row with the engineered columns set
_engineer_features(df) == EngineeredColumns(df) @@ df

categorical_cols ==
    << "gender", "Partner", "Dependents", "PhoneService", "MultipleLines",
       "InternetService", "OnlineSecurity", "OnlineBackup", "DeviceProtection",
       "TechSupport", "StreamingTV", "StreamingMovies", "Contract",
       "PaperlessBilling", "PaymentMethod", "HasPremiumServices", "HasStreaming",
       "HighRiskProfile", "FamilyCustomer", "ValueSegment" >>

\* LabelEncoder.transform of one value: its position in the sorted classes_,
\* a ValueError for a label the encoder was not fitted on
LabelEncoderTransform(classes, v) ==
    IF \E i \in 1..Len(classes) : classes[i] = v
    THEN Ok((CHOOSE i \in 1..Len(classes) : classes[i] = v) - 1)
    ELSE Raise(ValueError("y contains previously unseen labels"))

\* EncodeLoop over every column of the row instead of categorical_cols
\* (for col in df.columns: if col in label_encoders)
RECURSIVE EncodeLoopEveryColumn(_, _, _)
EncodeLoopEveryColumn(df, encoders, i) ==
    LET cols == categorical_cols \o
                << "SeniorCitizen", "tenure", "MonthlyCharges", "TotalCharges",
                   "ServiceCount", "PremiumServiceCount", "Tenure_MonthlyCharges",
                   "Tenure_ServiceCount", "MonthlyCharges_ServiceCount" >>
    IN  IF i > Len(cols)
        THEN Ok(df)
        ELSE IF cols[i] \in DOMAIN df /\ cols[i] \in DOMAIN encoders
        THEN LET printed == IF i <= Len(categorical_cols)
                            THEN astype_str(df[cols[i]])
                            ELSE ToString(df[cols[i]])
                 code == LabelEncoderTransform(encoders[cols[i]], printed)
             IN  IF code.ok
                 THEN EncodeLoopEveryColumn(SetCol(df, cols[i], code.val), encoders, i + 1)
                 ELSE code
        ELSE EncodeLoopEveryColumn(df, encoders, i + 1)

\* the loop of _encode_features from its i-th column on
RECURSIVE EncodeLoop(_, _, _)
EncodeLoop(df, encoders, i) ==
    IF i > Len(categorical_cols)
    THEN Ok(df)
    ELSE LET col == categorical_cols[i]
         IN  IF col \in DOMAIN df /\ col \in DOMAIN encoders
             THEN LET code == LabelEncoderTransform(encoders[col], astype_str(df[col]))
                  IN  IF code.ok
                      THEN EncodeLoop(SetCol(df, col, code.val), encoders, i + 1)
                      ELSE code
             ELSE EncodeLoop(df, encoders, i + 1)

_encode_features(df) ==
    IF ~label_encoders.ok THEN label_encoders
    ELSE EncodeLoop(df, label_encoders.val, 1)

\* a column still holds a string after encoding when it is categorical and
\* had no encoder; every other column is numeric
HoldsString(col, encoders) ==
    /\ \E i \in 1..Len(categorical_cols) : categorical_cols[i] = col
    /\ col \notin DOMAIN encoders

\* a numeric cell as a float
ToFloat(col, v) == IF col = "AvgMonthlyRate" THEN v ELSE Div(v, 1)

\* StandardScaler.transform of one cell: (x - mean_) / scale_
ScaleCell(sc, x) == Div(x.num - sc.mean_ * x.den, x.den * sc.scale_)

\* scaler.transform(df): the input is validated (numeric, finite, of the fitted
\* width) and then standardized; the result is a bare array without column names
ScalerTransform(sc, names, df, encoders) ==
    IF \E i \in 1..Len(names) : HoldsString(names[i], encoders)
    THEN Raise(ValueError("could not convert string to float"))
    ELSE IF \E i \in 1..Len(names) : ~IsFinite(ToFloat(names[i], df[names[i]]))
    THEN Raise(ValueError("Input contains NaN or infinity"))
    ELSE IF Len(names) # sc.n_features_in_
    THEN Raise(ValueError("X has a different number of features than the scaler"))
    ELSE Ok([i \in 1..Len(names) |-> ScaleCell(sc, ToFloat(names[i], df[names[i]]))])

\* SelectColumns that skips the names that are not columns instead of raising
SelectColumnsPresent(df, names) ==
    Ok(SelectSeq(names, LAMBDA name : name \in DOMAIN df))

\* df[model_manager.feature_names]: every listed column, in the listed order;
\* a KeyError when a listed name is not a column
SelectColumns(df, names) ==
    IF \E i \in 1..Len(names) : names[i] \notin DOMAIN df
    THEN Raise(KeyError("not in index"))
    ELSE Ok(names)

\* pd.DataFrame(array, columns = names)
DataFrame(values, names) == [columns |-> names, values |-> values]

preprocess(customer_data) ==
    LET engineered == _engineer_features(customer_data)
        encoded == _encode_features(engineered)
    IN  IF ~encoded.ok THEN encoded
        ELSE IF ~feature_names.ok THEN feature_names
        ELSE LET ordered == SelectColumns(encoded.val, feature_names.val)
             IN  IF ~ordered.ok THEN ordered
                 ELSE IF ~scaler.ok THEN scaler
                 ELSE LET scaled == ScalerTransform(scaler.val, ordered.val,
                                                    encoded.val, label_encoders.val)
                      IN  IF ~scaled.ok THEN scaled
                          ELSE Ok(DataFrame(scaled.val, feature_names.val))

----------------------------------------------------------------------------
(* The classifier behind model_manager.model: a gradient-boosted tree model,  *)
(* here one decision stump over the scaled vector.                            *)

\* x < t for a float x and a whole threshold t
Less(x, t) == x.num < t * x.den

\* model.predict_proba(X)[0][1], in percent
PredictProba(clf, X) ==
    IF Len(X.values) # clf.n_features_in_
    THEN Raise(ValueError("Feature shape mismatch"))
    ELSE Ok(IF Less(X.values[clf.feature], clf.threshold) THEN clf.left ELSE clf.right)

\* model.predict(X)[0]: the class whose probability is the larger
Predict(clf, X) ==
    LET proba == PredictProba(clf, X)
    IN  IF ~proba.ok THEN proba ELSE Ok(IF proba.val > 50 THEN 1 ELSE 0)

----------------------------------------------------------------------------
(* services/prediction.py: PredictionService *)

\* _get_risk_level with <= for <
_get_risk_level_inclusive(probability) ==
    IF probability <= RISK_THRESHOLD_LOW THEN "Low"
    ELSE IF probability <= RISK_THRESHOLD_MEDIUM THEN "Medium"
    ELSE "High"

_get_risk_level(probability) ==
    IF probability < RISK_THRESHOLD_LOW THEN "Low"
    ELSE IF probability < RISK_THRESHOLD_MEDIUM THEN "Medium"
    ELSE "High"

\* ChurnLabel with the two labels exchanged
ChurnLabelSwapped(prediction) == IF prediction = 1 THEN "No Churn" ELSE "Churn"

ChurnLabel(prediction) == IF prediction = 1 THEN "Churn" ELSE "No Churn"

PredictionResponse(prediction, probability, label, risk) ==
    [ churn_prediction |-> prediction,
      churn_probability |-> probability,
      churn_label |-> label,
      risk_level |-> risk ]

predict_single(customer_data) ==
    LET processed_data == preprocess(customer_data)
    IN  IF ~processed_data.ok THEN processed_data
        ELSE IF ~model.ok THEN model
        ELSE LET prediction == Predict(model.val, processed_data.val)
                 probability == PredictProba(model.val, processed_data.val)
             IN  IF ~prediction.ok THEN prediction
                 ELSE IF ~probability.ok THEN probability
                 ELSE Ok(PredictionResponse(prediction.val, probability.val,
                                            ChurnLabel(prediction.val),
                                            _get_risk_level(probability.val)))

\* round(k / n, 4) in ten-thousandths: the nearest, a tie going to the even one
Round4(k, n) ==
    LET q == (k * 10000) \div n
        r == (k * 10000) % n
    IN  IF 2 * r < n THEN q
        ELSE IF 2 * r > n THEN q + 1
        ELSE IF q % 2 = 0 THEN q ELSE q + 1

\* CountChurners without its condition: every prediction is counted
CountAll(predictions, i) == Len(predictions)

\* sum(1 for p in predictions if p.churn_prediction == 1)
RECURSIVE CountChurners(_, _)
CountChurners(predictions, i) ==
    IF i > Len(predictions) THEN 0
    ELSE AsInt(predictions[i].churn_prediction = 1) + CountChurners(predictions, i + 1)

BatchPredictionResponse(predictions) ==
    LET total_customers == Len(predictions)
        predicted_churners == CountChurners(predictions, 1)
    IN  [ predictions |-> predictions,
          total_customers |-> total_customers,
          predicted_churners |-> predicted_churners,
          churn_rate |-> IF total_customers > 0
                         THEN Round4(predicted_churners, total_customers)
                         ELSE 0 ]

\* the for loop of predict_batch from its i-th customer on: the outcome of the
\* call and the customers predict_single was entered for
RECURSIVE BatchLoop(_, _, _)
BatchLoop(customers, i, predictions) ==
    IF i > Len(customers)
    THEN [out |-> Ok(BatchPredictionResponse(predictions)), entered |-> i - 1]
    ELSE LET prediction == predict_single(customers[i])
         IN  IF ~prediction.ok
             THEN [out |-> prediction, entered |-> i]
             ELSE BatchLoop(customers, i + 1, Append(predictions, prediction.val))

\* predict_batch that skips a customer whose prediction fails and goes on
RECURSIVE BatchLoopSkipping(_, _, _)
BatchLoopSkipping(customers, i, predictions) ==
    IF i > Len(customers)
    THEN [out |-> Ok(BatchPredictionResponse(predictions)), entered |-> i - 1]
    ELSE LET prediction == predict_single(customers[i])
         IN  BatchLoopSkipping(customers, i + 1,
                               IF prediction.ok
                               THEN Append(predictions, prediction.val)
                               ELSE predictions)

predict_batch_skipping(customers) == BatchLoopSkipping(customers, 1, <<>>)

predict_batch(customers) == BatchLoop(customers, 1, <<>>)

----------------------------------------------------------------------------
(* api/routes.py: what a handler hands back to the framework *)

Response(body) == [status |-> 200, body |-> body]

\* HTTPException(status_code = 500, detail = prefix + str(e))
HTTPException(prefix, e) == [status |-> 500, detail |-> [prefix |-> prefix, msg |-> e.msg]]

root ==
    Response([message |-> "Customer Churn Prediction API", version |-> "1.0.0",
              status |-> "active"])

health_check ==
    LET model_loaded == is_loaded
    IN  Response([status |-> IF model_loaded THEN "healthy" ELSE "unhealthy",
                  model_loaded |-> model_loaded])

ModelInfoKeys ==
    { "model_name", "f1_score", "accuracy", "precision", "recall", "roc_auc",
      "n_features", "training_date" }

get_model_info ==
    IF ~model_metadata.ok
    THEN HTTPException("", model_metadata.err)
    ELSE Response([k \in ModelInfoKeys |-> model_metadata.val[k]])

predict_churn(customer) ==
    LET result == predict_single(customer)
    IN  IF result.ok THEN Response(result.val)
        ELSE HTTPException("Prediction error: ", result.err)

predict_churn_batch(customers) ==
    LET result == predict_batch(customers).out
    IN  IF result.ok THEN Response(result.val)
        ELSE HTTPException("Batch prediction error: ", result.err)

----------------------------------------------------------------------------
(* The pickled artifacts under MODELS_DIR that load_artifacts may find *)

\* the columns _engineer_features leaves, in the order it creates them
FullSchema ==
    << "gender", "SeniorCitizen", "Partner", "Dependents", "tenure", "PhoneService",
       "MultipleLines", "InternetService", "OnlineSecurity", "OnlineBackup",
       "DeviceProtection", "TechSupport", "StreamingTV", "StreamingMovies",
       "Contract", "PaperlessBilling", "PaymentMethod", "MonthlyCharges",
       "TotalCharges", "ServiceCount", "AvgMonthlyRate", "PremiumServiceCount",
       "HasPremiumServices", "HasStreaming", "ValueSegment", "HighRiskProfile",
       "FamilyCustomer", "Tenure_MonthlyCharges", "Tenure_ServiceCount",
       "MonthlyCharges_ServiceCount" >>

\* a model trained on a selection of the columns, in another order
ShortSchema == << "Contract", "tenure", "MonthlyCharges", "AvgMonthlyRate", "ServiceCount" >>

\* a model trained with a column this version of the pipeline does not produce
SkewSchema == Append(FullSchema, "ChargeRatio")

FeatureNameFiles == { FullSchema, ShortSchema, SkewSchema }

YesNoClasses == << "No", "Yes" >>
InternetAddOnClasses == << "No", "No internet service", "Yes" >>

\* the encoders fitted on the training data: the sorted labels of each column
FullEncoders ==
    [ gender |-> << "Female", "Male" >>,
      Partner |-> YesNoClasses,
      Dependents |-> YesNoClasses,
      PhoneService |-> YesNoClasses,
      MultipleLines |-> << "No", "No phone service", "Yes" >>,
      InternetService |-> << "DSL", "Fiber optic", "No" >>,
      OnlineSecurity |-> InternetAddOnClasses,
      OnlineBackup |-> InternetAddOnClasses,
      DeviceProtection |-> InternetAddOnClasses,
      TechSupport |-> InternetAddOnClasses,
      StreamingTV |-> InternetAddOnClasses,
      StreamingMovies |-> InternetAddOnClasses,
      Contract |-> << "Month-to-month", "One year", "Two year" >>,
      PaperlessBilling |-> YesNoClasses,
      PaymentMethod |-> << "Bank transfer (automatic)", "Credit card (automatic)",
                           "Electronic check", "Mailed check" >>,
      HasPremiumServices |-> YesNoClasses,
      HasStreaming |-> YesNoClasses,
      HighRiskProfile |-> YesNoClasses,
      FamilyCustomer |-> YesNoClasses,
      ValueSegment |-> << "High Value", "Low Value", "Medium Value" >> ]

\* the same without an encoder for ValueSegment
EncodersWithoutSegment ==
    [ col \in (DOMAIN FullEncoders) \ {"ValueSegment"} |-> FullEncoders[col] ]

LabelEncoderFiles == { FullEncoders, EncodersWithoutSegment }

ScalerFiles ==
    { [n_features_in_ |-> Len(FullSchema), mean_ |-> 10, scale_ |-> 5],
      [n_features_in_ |-> Len(ShortSchema), mean_ |-> 10, scale_ |-> 5] }

\* stumps that split on the scaled tenure or the scaled MonthlyCharges
ModelFiles ==
    { [n_features_in_ |-> Len(FullSchema), feature |-> 5, threshold |-> 0,
       left |-> 72, right |-> 18],
      [n_features_in_ |-> Len(FullSchema), feature |-> 18, threshold |-> 10,
       left |-> 30, right |-> 60],
      [n_features_in_ |-> Len(ShortSchema), feature |-> 2, threshold |-> 0,
       left |-> 100, right |-> 0] }

MetadataFiles ==
    { [ model_name |-> "XGBoost", f1_score |-> 62, accuracy |-> 80, precision |-> 65,
        recall |-> 59, roc_auc |-> 84, n_features |-> Len(FullSchema),
        training_date |-> "2024-01-01" ] }

FileNotFoundError == [exc |-> "FileNotFoundError", msg |-> "No such file or directory"]

\* what reading the five files gives: bad is the index of the one file that
\* cannot be read, 0 when all can
Disk(clf, sc, encoders, names, metadata, bad) ==
    LET content == [ model |-> clf, scaler |-> sc, label_encoders |-> encoders,
                     feature_names |-> names, model_metadata |-> metadata ]
    IN  [ a \in DOMAIN content |->
            IF bad \in 1..5 /\ ArtifactOrder[bad] = a
            THEN Raise(FileNotFoundError)
            ELSE Ok(content[a]) ]

Disks ==
    { Disk(clf, sc, encoders, names, metadata, bad) :
        clf \in ModelFiles, sc \in ScalerFiles, encoders \in LabelEncoderFiles,
        names \in FeatureNameFiles, metadata \in MetadataFiles, bad \in 0..5 }

----------------------------------------------------------------------------
(* models/request.py: CustomerData records that pass validation *)

\* the documented example, in whole currency units
ExampleCustomer ==
    [ gender |-> "Male", SeniorCitizen |-> 0, Partner |-> "Yes", Dependents |-> "No",
      tenure |-> 12, PhoneService |-> "Yes", MultipleLines |-> "No",
      InternetService |-> "Fiber optic", OnlineSecurity |-> "No",
      OnlineBackup |-> "Yes", DeviceProtection |-> "No", TechSupport |-> "No",
      StreamingTV |-> "Yes", StreamingMovies |-> "Yes",
      Contract |-> "Month-to-month", PaperlessBilling |-> "Yes",
      PaymentMethod |-> "Electronic check", MonthlyCharges |-> 85,
      TotalCharges |-> 1020 ]

\* the constraints of the model: tenure, MonthlyCharges, TotalCharges >= 0 (ge = 0)
Valid(c) == c.tenure >= 0 /\ c.MonthlyCharges >= 0 /\ c.TotalCharges >= 0

\* the customers of the requests: the example, a customer in the first month,
\* a long-standing phone-only customer, one with an internet service the
\* encoders were not fitted on, and two with MonthlyCharges outside (0, 120]
Customers ==
    { ExampleCustomer,
      [ExampleCustomer EXCEPT !.tenure = 0, !.TotalCharges = 0],
      [ExampleCustomer EXCEPT
          !.tenure = 60, !.InternetService = "No",
          !.OnlineSecurity = "No internet service",
          !.OnlineBackup = "No internet service",
          !.DeviceProtection = "No internet service",
          !.TechSupport = "No internet service",
          !.StreamingTV = "No internet service",
          !.StreamingMovies = "No internet service",
          !.Contract = "Two year", !.PaymentMethod = "Mailed check",
          !.MonthlyCharges = 20, !.TotalCharges = 1200],
      [ExampleCustomer EXCEPT !.InternetService = "Cable"],
      [ExampleCustomer EXCEPT !.MonthlyCharges = 0],
      [ExampleCustomer EXCEPT !.MonthlyCharges = 150] }

\* the customer lists of the batch requests
RECURSIVE ListsOfLength(_)
ListsOfLength(n) ==
    IF n = 0 THEN { <<>> }
    ELSE { Append(l, c) : l \in ListsOfLength(n - 1), c \in Customers }

CustomerLists == UNION { ListsOfLength(n) : n \in 0..MaxBatch }

----------------------------------------------------------------------------
(* The service: startup (main.py) and the requests the router dispatches *)

Call(op, arg) == Some([op |-> op, arg |-> arg])

Idle == request = None

Called(op) == request # None /\ request[1].op = op

Init ==
    /\ _model = None
    /\ _scaler = None
    /\ _label_encoders = None
    /\ _feature_names = None
    /\ _model_metadata = None
    /\ phase = "starting"
    /\ request = None
    /\ response = None
    /\ processed = <<>>

\* startup_event: the one call of load_artifacts; its exception fails the startup
startup_event ==
    /\ phase = "starting"
    /\ Idle
    /\ \E disk \in Disks :
        /\ load_artifacts(disk)
        /\ phase' = IF load_artifacts_result(disk).ok THEN "serving" ELSE "failed"
    /\ UNCHANGED <<request, response, processed>>

Root ==
    /\ Idle
    /\ request' = Call("root", None)
    /\ response' = Some(root)
    /\ processed' = <<>>
    /\ UNCHANGED <<store, phase>>

HealthCheck ==
    /\ Idle
    /\ request' = Call("health_check", None)
    /\ response' = Some(health_check)
    /\ processed' = <<>>
    /\ UNCHANGED <<store, phase>>

GetModelInfo ==
    /\ Idle
    /\ request' = Call("get_model_info", None)
    /\ response' = Some(get_model_info)
    /\ processed' = <<>>
    /\ UNCHANGED <<store, phase>>

\* PredictChurn whose encoding refits the encoders on the row (fit_transform)
PredictChurnRefitting(customer) ==
    /\ Idle
    /\ request' = Call("predict_churn", customer)
    /\ response' = Some(predict_churn(customer))
    /\ processed' = <<customer>>
    /\ _label_encoders' =
          IF _label_encoders = None THEN None
          ELSE Some([col \in DOMAIN _label_encoders[1] |->
                        << astype_str(_engineer_features(customer)[col]) >>])
    /\ UNCHANGED <<_model, _scaler, _feature_names, _model_metadata, phase>>

PredictChurn(customer) ==
    /\ Idle
    /\ request' = Call("predict_churn", customer)
    /\ response' = Some(predict_churn(customer))
    /\ processed' = <<customer>>
    /\ UNCHANGED <<store, phase>>

PredictChurnBatch(customers) ==
    /\ Idle
    /\ request' = Call("predict_churn_batch", customers)
    /\ response' = Some(predict_churn_batch(customers))
    /\ processed' = SubSeq(customers, 1, predict_batch(customers).entered)
    /\ UNCHANGED <<store, phase>>

\* the response is sent and the objects of the request are dropped
Respond ==
    /\ ~Idle
    /\ request' = None
    /\ response' = None
    /\ processed' = <<>>
    /\ UNCHANGED <<store, phase>>

Next ==
    \/ startup_event
    \/ Root
    \/ HealthCheck
    \/ GetModelInfo
    \/ \E customer \in Customers : PredictChurn(customer)
    \/ \E customers \in CustomerLists : PredictChurnBatch(customers)
    \/ Respond

Spec == Init /\ [][Next]_vars

----------------------------------------------------------------------------
(* _get_risk_level on its own: every percentage is classified once *)

Probabilities == 0..100

InitRisk ==
    /\ _model = None
    /\ _scaler = None
    /\ _label_encoders = None
    /\ _feature_names = None
    /\ _model_metadata = None
    /\ phase = "starting"
    /\ request \in { Call("_get_risk_level", p) : p \in Probabilities }
    /\ response = None
    /\ processed = <<>>

GetRiskLevel ==
    /\ Called("_get_risk_level")
    /\ response = None
    /\ response' = Some(_get_risk_level(request[1].arg))
    /\ UNCHANGED <<store, phase, request, processed>>

NextRisk == GetRiskLevel

SpecRisk == InitRisk /\ [][NextRisk]_vars

----------------------------------------------------------------------------
(* _engineer_features on its own: every row of FeatureInputs is engineered once *)

YesOrNo == { "Yes", "No" }

FeatureInputs ==
    { [ExampleCustomer EXCEPT
          !.PhoneService = phone, !.InternetService = internet,
          !.OnlineSecurity = security, !.OnlineBackup = backup,
          !.DeviceProtection = protection, !.TechSupport = support,
          !.StreamingTV = tv, !.StreamingMovies = movies,
          !.tenure = months, !.TotalCharges = total, !.MonthlyCharges = monthly] :
        phone \in YesOrNo,
        internet \in { "DSL", "Fiber optic", "No" },
        security \in { "Yes", "No", "No internet service" },
        backup \in YesOrNo, protection \in YesOrNo, support \in YesOrNo,
        tv \in YesOrNo, movies \in YesOrNo,
        months \in { 0, 1, 12 },
        total \in { 0, 85, 1020 },
        monthly \in { 0, 35, 36, 70, 120, 121 } }

InitFeatures ==
    /\ _model = None
    /\ _scaler = None
    /\ _label_encoders = None
    /\ _feature_names = None
    /\ _model_metadata = None
    /\ phase = "starting"
    /\ request \in { Call("_engineer_features", c) : c \in FeatureInputs }
    /\ response = None
    /\ processed = <<>>

EngineerFeatures ==
    /\ Called("_engineer_features")
    /\ response = None
    /\ response' = Some(_engineer_features(request[1].arg))
    /\ UNCHANGED <<store, phase, request, processed>>

NextFeatures == EngineerFeatures

SpecFeatures == InitFeatures /\ [][NextFeatures]_vars

----------------------------------------------------------------------------
(* Properties *)

Arg == request[1].arg
Out == response[1]

Answered(op) == Called(op) /\ response # None

AllLoaded ==
    /\ _model # None
    /\ _scaler # None
    /\ _label_encoders # None
    /\ _feature_names # None
    /\ _model_metadata # None

Max(a, b) == IF a >= b THEN a ELSE b

Rank(level) == CASE level = "Low" -> 1 [] level = "Medium" -> 2 [] level = "High" -> 3

\* C1: _get_risk_level is total over [0, 1]: "Low" exactly below 0.3, "Medium"
\* exactly from 0.3 up to but not including 0.6, "High" exactly from 0.6 on, and
\* the tier of a smaller probability is never the higher one.
C1_RiskLevelTiers ==
    Answered("_get_risk_level") =>
        /\ Out \in { "Low", "Medium", "High" }
        /\ (Out = "Low") <=> (Arg < 30)
        /\ (Out = "Medium") <=> (30 <= Arg /\ Arg < 60)
        /\ (Out = "High") <=> (Arg >= 60)
        /\ \A q \in Probabilities :
              q <= Arg => Rank(_get_risk_level(q)) <= Rank(Out)

\* the boundary 0.3 has been classified, as "Medium"
C1_Witness == Answered("_get_risk_level") /\ Arg = 30 /\ Out = "Medium"

\* C7: AvgMonthlyRate is TotalCharges / max(tenure, 1): a finite number, equal
\* to TotalCharges for tenure 0 and to TotalCharges / tenure for tenure > 0.
C7_AvgMonthlyRate ==
    Answered("_engineer_features") =>
        LET rate == Out["AvgMonthlyRate"]
        IN  /\ IsFinite(rate)
            /\ rate.num * Max(Arg.tenure, 1) = Arg.TotalCharges * rate.den
            /\ Arg.tenure = 0 => rate = [num |-> Arg.TotalCharges, den |-> 1]
            /\ Arg.tenure > 0 => rate.num * Arg.tenure = Arg.TotalCharges * rate.den

\* a row with tenure 0 and a positive TotalCharges has been engineered
C7_Witness ==
    /\ Answered("_engineer_features")
    /\ Arg.tenure = 0
    /\ Arg.TotalCharges = 1020
    /\ Out["AvgMonthlyRate"] = [num |-> 1020, den |-> 1]

InternetAddOns ==
    { "OnlineSecurity", "OnlineBackup", "DeviceProtection", "TechSupport",
      "StreamingTV", "StreamingMovies" }

\* C8: ServiceCount is 1 for PhoneService = "Yes", plus 1 for an InternetService
\* other than "No", plus the number of the six add-on columns that are "Yes";
\* it lies in 0..8, and is 2 for phone and DSL with "No" for the six.
C8_ServiceCount ==
    Answered("_engineer_features") =>
        /\ Out["ServiceCount"] =
              (IF Arg.PhoneService = "Yes" THEN 1 ELSE 0)
              + (IF Arg.InternetService # "No" THEN 1 ELSE 0)
              + Cardinality({ col \in InternetAddOns : Arg[col] = "Yes" })
        /\ Out["ServiceCount"] \in 0..8
        /\ ( /\ Arg.PhoneService = "Yes"
             /\ Arg.InternetService = "DSL"
             /\ \A col \in InternetAddOns : Arg[col] = "No" )
           => Out["ServiceCount"] = 2

\* phone and DSL with "No" for the six add-ons has been counted as 2
C8_Witness ==
    /\ Answered("_engineer_features")
    /\ Arg.PhoneService = "Yes"
    /\ Arg.InternetService = "DSL"
    /\ \A col \in InternetAddOns : Arg[col] = "No"
    /\ Out["ServiceCount"] = 2

\* the columns the pipeline produces: the raw fields and the engineered ones
PipelineColumns == { FullSchema[i] : i \in 1..Len(FullSchema) }

\* the loaded artifacts fit the pipeline and one another: the schema names only
\* columns the pipeline produces, scaler and classifier were fitted on that many
\* columns, and every categorical column of the schema has an encoder
ArtifactsMatchPipeline ==
    /\ AllLoaded
    /\ \A i \in 1..Len(_feature_names[1]) :
          /\ _feature_names[1][i] \in PipelineColumns
          /\ ~HoldsString(_feature_names[1][i], _label_encoders[1])
    /\ _scaler[1].n_features_in_ = Len(_feature_names[1])
    /\ _model[1].n_features_in_ = Len(_feature_names[1])

WellFormedResult(result) ==
    /\ result.churn_prediction \in { 0, 1 }
    /\ result.churn_probability \in 0..100
    /\ result.churn_label = "Churn" <=> result.churn_prediction = 1
    /\ result.churn_label = "No Churn" <=> result.churn_prediction # 1

NotLoaded(what) == RuntimeError(what)

\* C3: each of the five accessors raises its "not loaded" error while its
\* artifact is not loaded, and predict_single called while an artifact it
\* reads is not loaded returns no PredictionResult: the caller gets the error,
\* which before any load is the "not loaded" error of the encoders.
C3_NotLoadedErrors ==
    /\ _model = None =>
          model = Raise(NotLoaded("Model not loaded. Call load_artifacts() first."))
    /\ _scaler = None =>
          scaler = Raise(NotLoaded("Scaler not loaded. Call load_artifacts() first."))
    /\ _label_encoders = None =>
          label_encoders =
             Raise(NotLoaded("Label encoders not loaded. Call load_artifacts() first."))
    /\ _feature_names = None =>
          feature_names =
             Raise(NotLoaded("Feature names not loaded. Call load_artifacts() first."))
    /\ _model_metadata = None =>
          model_metadata =
             Raise(NotLoaded("Model metadata not loaded. Call load_artifacts() first."))
    /\ ( /\ Answered("predict_churn")
         /\ \/ _model = None
            \/ _scaler = None
            \/ _label_encoders = None
            \/ _feature_names = None )
       => /\ Out.status = 500
          /\ Out.detail.prefix = "Prediction error: "
          /\ ~predict_single(Arg).ok
          /\ Out.detail.msg = predict_single(Arg).err.msg
    /\ (Answered("predict_churn") /\ phase = "starting")
       => Out.detail.msg = "Label encoders not loaded. Call load_artifacts() first."
    /\ (Answered("get_model_info") /\ _model_metadata = None)
       => Out = [ status |-> 500,
                  detail |-> [ prefix |-> "",
                               msg |-> "Model metadata not loaded. Call load_artifacts() first." ] ]

\* a prediction has been asked for before the load and refused
C3_Witness ==
    /\ phase = "starting"
    /\ _model = None
    /\ Answered("predict_churn")
    /\ Out.status = 500
    /\ Out.detail.msg = "Label encoders not loaded. Call load_artifacts() first."

\* C4: the health check answers "healthy" / model_loaded = TRUE only when all
\* five artifacts are loaded, also after a load that failed part-way.
C4_HealthyOnlyWhenLoaded ==
    Answered("health_check") =>
        /\ Out.body.model_loaded => AllLoaded
        /\ Out.body.status = "healthy" => AllLoaded
        /\ Out.body.model_loaded <=> Out.body.status = "healthy"

\* the positions of a customer list at which predict_single fails
Failing(customers) == { i \in 1..Len(customers) : ~predict_single(customers[i]).ok }

C6_BatchAllOrNothing ==
    (Answered("predict_churn_batch") /\ Failing(Arg) # {}) =>
        LET first == CHOOSE i \in Failing(Arg) : \A j \in Failing(Arg) : i <= j
        IN  /\ Out = [ status |-> 500,
                       detail |-> [ prefix |-> "Batch prediction error: ",
                                    msg |-> predict_single(Arg[first]).err.msg ] ]
            /\ processed = SubSeq(Arg, 1, first)

\* a batch whose first record fails and whose second would succeed was refused
C6_Witness ==
    /\ Answered("predict_churn_batch")
    /\ Len(Arg) = 2
    /\ Failing(Arg) = { 1 }
    /\ Out.status = 500
    /\ processed = << Arg[1] >>

\* C9: once the startup load has completed no step changes an artifact: no
\* request of any kind, in any order, and no second load.
C9_StoreReadOnly == [][phase = "serving" => store' = store]_vars

\* a prediction has been served from the loaded store
C9_Witness ==
    /\ phase = "serving"
    /\ AllLoaded
    /\ Answered("predict_churn")
    /\ Out.status = 200

\* C10: a ScaledVector returned by preprocess has the feature-name list as its
\* columns, name for name and in that order, with one value per name; and
\* preprocess returns none when a name of the list is not a column the
\* pipeline produces.
C10_SchemaColumns ==
    (Answered("predict_churn") /\ _feature_names # None) =>
        LET scaled == preprocess(Arg)
            names == _feature_names[1]
        IN  /\ scaled.ok =>
                  /\ scaled.val.columns = names
                  /\ Len(scaled.val.values) = Len(names)
            /\ (\E i \in 1..Len(names) : names[i] \notin PipelineColumns)
               => /\ ~scaled.ok
                  /\ Out.status = 500

\* a record has been preprocessed into the columns of a reordered schema
C10_Witness ==
    /\ Answered("predict_churn")
    /\ _feature_names = Some(ShortSchema)
    /\ Out.status = 200
    /\ preprocess(Arg).ok
    /\ preprocess(Arg).val.columns = ShortSchema

SegmentLabels == { "Low Value", "Medium Value", "High Value" }

\* C12: ValueSegment has right-closed buckets of MonthlyCharges m: "Low Value"
\* for 0 < m <= 35, "Medium Value" for 35 < m <= 70, "High Value" for
\* 70 < m <= 120; for m outside (0, 120] it is none of the three labels but the
\* missing value, and the stage still returns its row with every column set.
C12_ValueSegmentBuckets ==
    Answered("_engineer_features") =>
        LET m == Arg.MonthlyCharges
            segment == Out["ValueSegment"]
        IN  /\ (0 < m /\ m <= 35) => segment = "Low Value"
            /\ (35 < m /\ m <= 70) => segment = "Medium Value"
            /\ (70 < m /\ m <= 120) => segment = "High Value"
            /\ (m <= 0 \/ m > 120) => (segment \notin SegmentLabels /\ segment = NaN)
            /\ DOMAIN Out = PipelineColumns

\* a row with MonthlyCharges = 0 has been engineered and has no segment
C12_Witness ==
    /\ Answered("_engineer_features")
    /\ Arg.MonthlyCharges = 0
    /\ Out["ValueSegment"] = NaN
    /\ Out["ServiceCount"] \in 0..8

----------------------------------------------------------------------------
(* _encode_features on its own: every engineered row of EncodeInputs is       *)
(* encoded once, under each encoder mapping of EncoderInputs                  *)

\* the fitted encoders with two more entries: one for the training target,
\* which is no column of a request, and one for a numeric column
EncodersWithExtras ==
    [ Churn |-> YesNoClasses, tenure |-> << "0", "1", "12", "60" >> ] @@ FullEncoders

EncoderInputs == LabelEncoderFiles \cup { EncodersWithExtras }

EncodeInputs ==
    Customers \cup { c \in FeatureInputs : c.tenure = 12 /\ c.TotalCharges = 1020 }

InitEncode ==
    /\ _model = None
    /\ _scaler = None
    /\ _label_encoders \in { Some(encoders) : encoders \in EncoderInputs }
    /\ _feature_names = None
    /\ _model_metadata = None
    /\ phase = "starting"
    /\ request \in { Call("_encode_features", _engineer_features(c)) : c \in EncodeInputs }
    /\ response = None
    /\ processed = <<>>

EncodeFeatures ==
    /\ Called("_encode_features")
    /\ response = None
    /\ response' = Some(_encode_features(request[1].arg))
    /\ UNCHANGED <<store, phase, request, processed>>

NextEncode == EncodeFeatures

SpecEncode == InitEncode /\ [][NextEncode]_vars

\* the fixed list of categorical columns, as a set
CategoricalColumns ==
    { "gender", "Partner", "Dependents", "PhoneService", "MultipleLines",
      "InternetService", "OnlineSecurity", "OnlineBackup", "DeviceProtection",
      "TechSupport", "StreamingTV", "StreamingMovies", "Contract",
      "PaperlessBilling", "PaymentMethod", "HasPremiumServices", "HasStreaming",
      "HighRiskProfile", "FamilyCustomer", "ValueSegment" }

\* C11: the encoding stage returns the row with the same columns; a column
\* that is in the categorical-column list and in the encoder mapping holds the
\* integer code of its value (the position of the value, printed as a string,
\* among the encoder's labels), and every other column holds its value as before.
C11_EncodeFrame ==
    (Answered("_encode_features") /\ Out.ok) =>
        LET encoders == _label_encoders[1]
        IN  /\ DOMAIN Out.val = DOMAIN Arg
            /\ \A col \in DOMAIN Arg :
                  IF col \in CategoricalColumns /\ col \in DOMAIN encoders
                  THEN /\ Out.val[col] \in 0..(Len(encoders[col]) - 1)
                       /\ encoders[col][Out.val[col] + 1] = astype_str(Arg[col])
                  ELSE Out.val[col] = Arg[col]

\* a row has been encoded under a mapping that also has an encoder for the
\* numeric tenure: Contract and ValueSegment hold their codes, tenure its value
C11_Witness ==
    /\ Answered("_encode_features")
    /\ Out.ok
    /\ "tenure" \in DOMAIN _label_encoders[1]
    /\ Arg["tenure"] = 12
    /\ Out.val["tenure"] = 12
    /\ Out.val["Contract"] = 0
    /\ Arg["Contract"] = "Month-to-month"
    /\ Out.val["ValueSegment"] = 0
    /\ Arg["ValueSegment"] = "High Value"

====
